---------------------------- MODULE Spec2Model ----------------------------
(***************************************************************************)
(* Model of src/script.js: the lead form and modal, and the growth         *)
(* calculator that drives the two chart datasets.                          *)
(*                                                                         *)
(* Numbers.  A JavaScript number is a record [k, n, d]: k = "fin" is the   *)
(* rational n/d in lowest terms with d > 0, k = "nan", "inf", "ninf" are   *)
(* NaN, +Infinity and -Infinity, and k = "null" is the null that the       *)
(* series hold for the years before the start year.  Arithmetic is exact   *)
(* on the finite values (no binary rounding error, no overflow to          *)
(* Infinity, no negative zero) and follows IEEE 754 on the others.         *)
(*                                                                         *)
(* Strings.  A string is a sequence of one-character strings, so trim,     *)
(* replace, endsWith, parseFloat, parseInt and String(number) are          *)
(* computed character by character.                                        *)
(***************************************************************************)
EXTENDS Integers, Sequences, FiniteSets, TLC

VARIABLES
    amountText,      \* simAmountInput.value
    yearText,        \* simYearSelect.value
    active,          \* active[b]: button b carries the class "active"
    benchData,       \* marketChart.data.datasets[0].data
    userData,        \* marketChart.data.datasets[1].data
    userHidden,      \* marketChart.data.datasets[1].hidden
    resultDisplay,   \* simResultBox.style.display
    finalAmountEl,   \* the number shown in #finalAmount
    totalReturnEl,   \* the number shown in #totalReturn
    cagrUsedEl,      \* the number shown in #cagrUsed
    defaultPending,  \* the 150 ms "initial default" timeout has not run yet
    calcEvent,       \* the last calculator event and whether it recalculated
    modalShown,      \* leadModal carries the class "show"
    formDisplay,     \* formContainer.style.display
    confirmDisplay,  \* confirmationMessage.style.display
    formName,        \* leadForm.name.value
    formPhone,       \* leadForm.phone.value
    submitDisabled,  \* submitButton.disabled
    submitLabel,     \* submitButton.textContent
    timers,          \* pending setTimeout(closeModal, 600) callbacks
    requests,        \* the fetch promises, in dispatch order
    errorLog,        \* console.error calls made by the fetch catch handler
    closesFired,     \* setTimeout(closeModal, 600) callbacks that have run
    popupShown,      \* the scroll handler's popupShown flag
    leadEvent,       \* the last lead form / modal event
    fnIn,            \* the argument a helper is applied to
    fnOut,           \* its result
    fnDone           \* the function has been applied

calcVars == <<amountText, yearText, active, benchData, userData, userHidden,
              resultDisplay, finalAmountEl, totalReturnEl, cagrUsedEl, defaultPending,
              calcEvent>>
leadVars == <<modalShown, formDisplay, confirmDisplay, formName, formPhone,
              submitDisabled, submitLabel, timers, requests, errorLog, closesFired,
              popupShown, leadEvent>>
fnVars == <<fnIn, fnOut, fnDone>>
vars == <<calcVars, leadVars, fnVars>>

(***************************************************************************)
(* Numbers                                                                 *)
(***************************************************************************)
Abs(x) == IF x < 0 THEN -x ELSE x

RECURSIVE GCD(_, _)
GCD(a, b) == IF b = 0 THEN a ELSE GCD(b, a % b)

Fin(n, d) ==
    LET g == GCD(Abs(n), Abs(d))
        s == IF d < 0 THEN -1 ELSE 1
    IN  [k |-> "fin", n |-> (s * n) \div g, d |-> (s * d) \div g]

Whole(n) == Fin(n, 1)
NaN == [k |-> "nan", n |-> 0, d |-> 1]
PosInf == [k |-> "inf", n |-> 0, d |-> 1]
NegInf == [k |-> "ninf", n |-> 0, d |-> 1]
Null == [k |-> "null", n |-> 0, d |-> 1]

IsFinite(a) == a.k = "fin"
IsInf(a) == a.k \in {"inf", "ninf"}
\* -1, 0 or 1; not used on NaN
Sgn(a) ==
    CASE a.k = "inf" -> 1
      [] a.k = "ninf" -> -1
      [] OTHER -> IF a.n > 0 THEN 1 ELSE IF a.n < 0 THEN -1 ELSE 0
Signed(s) == IF s < 0 THEN NegInf ELSE PosInf

\* ToNumber: null is 0 in arithmetic
Num(a) == IF a.k = "null" THEN Whole(0) ELSE a

NNeg(a) ==
    CASE a.k = "fin" -> Fin(-a.n, a.d)
      [] a.k = "inf" -> NegInf
      [] a.k = "ninf" -> PosInf
      [] OTHER -> NaN

NAddNum(a, b) ==
    CASE a.k = "nan" \/ b.k = "nan" -> NaN
      [] IsInf(a) /\ IsInf(b) -> IF a.k = b.k THEN a ELSE NaN
      [] IsInf(a) -> a
      [] IsInf(b) -> b
      [] OTHER -> Fin(a.n * b.d + b.n * a.d, a.d * b.d)

NAdd(a, b) == NAddNum(Num(a), Num(b))
NSub(a, b) == NAddNum(Num(a), NNeg(Num(b)))

NMulNum(a, b) ==
    CASE a.k = "nan" \/ b.k = "nan" -> NaN
      [] IsInf(a) \/ IsInf(b) ->
            IF Sgn(a) = 0 \/ Sgn(b) = 0 THEN NaN ELSE Signed(Sgn(a) * Sgn(b))
      [] OTHER -> Fin(a.n * b.n, a.d * b.d)

NDivNum(a, b) ==
    CASE a.k = "nan" \/ b.k = "nan" -> NaN
      [] IsInf(a) /\ IsInf(b) -> NaN
      [] IsInf(a) -> Signed(Sgn(a) * (IF Sgn(b) < 0 THEN -1 ELSE 1))
      [] IsInf(b) -> Whole(0)
      [] b.n = 0 -> IF a.n = 0 THEN NaN ELSE Signed(Sgn(a))
      [] OTHER -> Fin(a.n * b.d, a.d * b.n)

NMul(a, b) == NMulNum(Num(a), Num(b))
NDiv(a, b) == NDivNum(Num(a), Num(b))

\* Math.pow(a, e) for an integer e >= 0; Math.pow(x, 0) is 1 for every x, NaN included
RECURSIVE NPow(_, _)
NPow(a, e) == IF e = 0 THEN Whole(1) ELSE NMul(a, NPow(a, e - 1))

\* a < b; false when either is NaN
NLt(a, b) ==
    CASE a.k = "nan" \/ b.k = "nan" -> FALSE
      [] a.k = "inf" -> FALSE
      [] b.k = "ninf" -> FALSE
      [] a.k = "ninf" -> TRUE
      [] b.k = "inf" -> TRUE
      [] OTHER -> a.n * b.d < b.n * a.d

NLe(a, b) == (a.k # "nan" /\ b.k # "nan") /\ ~NLt(b, a)

\* Math.round: floor(x + 1/2); NaN and the infinities are returned as they are
MathRound(a) ==
    IF a.k = "fin" THEN Whole((2 * a.n + a.d) \div (2 * a.d)) ELSE Num(a)

\* the || operator on a number or undefined: 0 and NaN are falsy
Truthy(a) == ~(a.k \in {"nan", "null"}) /\ ~(a.k = "fin" /\ a.n = 0)

(***************************************************************************)
(* Strings                                                                 *)
(***************************************************************************)
DigitVal == ("0" :> 0) @@ ("1" :> 1) @@ ("2" :> 2) @@ ("3" :> 3) @@ ("4" :> 4) @@
            ("5" :> 5) @@ ("6" :> 6) @@ ("7" :> 7) @@ ("8" :> 8) @@ ("9" :> 9)
DigitChar == <<"0", "1", "2", "3", "4", "5", "6", "7", "8", "9">>
IsDigit(c) == c \in DOMAIN DigitVal
InfinityStr == <<"I", "n", "f", "i", "n", "i", "t", "y">>

RECURSIVE Pow10(_)
Pow10(k) == IF k = 0 THEN 1 ELSE 10 * Pow10(k - 1)

RECURSIVE TrimStart(_)
TrimStart(s) == IF s # <<>> /\ Head(s) = " " THEN TrimStart(Tail(s)) ELSE s

RECURSIVE TrimEnd(_)
TrimEnd(s) ==
    IF s # <<>> /\ s[Len(s)] = " " THEN TrimEnd(SubSeq(s, 1, Len(s) - 1)) ELSE s

\* String.prototype.trim
Trim(s) == TrimEnd(TrimStart(s))

\* str.replace(/,/g, '')
RemoveCommas(s) == SelectSeq(s, LAMBDA c : c # ",")

StartsWith(s, p) == Len(s) >= Len(p) /\ SubSeq(s, 1, Len(p)) = p

\* the length of the run of decimal digits s starts with
RECURSIVE DigitRun(_)
DigitRun(s) == IF s # <<>> /\ IsDigit(Head(s)) THEN 1 + DigitRun(Tail(s)) ELSE 0

RECURSIVE DigitsValue(_)
DigitsValue(s) ==
    IF s = <<>> THEN 0
    ELSE 10 * DigitsValue(SubSeq(s, 1, Len(s) - 1)) + DigitVal[s[Len(s)]]

\* parseFloat: leading white space, a sign, then "Infinity" or the longest
\* prefix digits[.digits]; NaN when there is no digit.  (No exponent part:
\* no input of the model holds one.)
parseFloat(s) ==
    LET t == TrimStart(s)
        signed == t # <<>> /\ Head(t) \in {"+", "-"}
        sg == IF t # <<>> /\ Head(t) = "-" THEN -1 ELSE 1
        u == IF signed THEN Tail(t) ELSE t
        il == DigitRun(u)
        rest == SubSeq(u, il + 1, Len(u))
        fl == IF rest # <<>> /\ Head(rest) = "." THEN DigitRun(Tail(rest)) ELSE 0
        ip == DigitsValue(SubSeq(u, 1, il))
        fp == DigitsValue(SubSeq(rest, 2, fl + 1))
    IN  IF StartsWith(u, InfinityStr) THEN Signed(sg)
        ELSE IF il + fl = 0 THEN NaN
        ELSE Fin(sg * (ip * Pow10(fl) + fp), Pow10(fl))

\* parseInt(s, 10)
parseInt(s) ==
    LET t == TrimStart(s)
        signed == t # <<>> /\ Head(t) \in {"+", "-"}
        sg == IF t # <<>> /\ Head(t) = "-" THEN -1 ELSE 1
        u == IF signed THEN Tail(t) ELSE t
        il == DigitRun(u)
    IN  IF il = 0 THEN NaN ELSE Whole(sg * DigitsValue(SubSeq(u, 1, il)))

RECURSIVE NatToString(_)
NatToString(n) ==
    IF n < 10 THEN <<DigitChar[n + 1]>>
    ELSE NatToString(n \div 10) \o <<DigitChar[(n % 10) + 1]>>

RECURSIVE PadLeft(_, _)
PadLeft(s, k) == IF Len(s) >= k THEN s ELSE PadLeft(<<"0">> \o s, k)

\* the number of decimal places of a rational whose denominator divides a power of 10
RECURSIVE Places(_, _)
Places(d, k) == IF Pow10(k) % d = 0 THEN k ELSE Places(d, k + 1)

\* String(x) for a number x with a finite decimal expansion
NumberToString(x) ==
    CASE x.k = "nan" -> <<"N", "a", "N">>
      [] x.k = "inf" -> InfinityStr
      [] x.k = "ninf" -> <<"-">> \o InfinityStr
      [] OTHER ->
            LET k == Places(x.d, 0)
                m == Abs(x.n) * (Pow10(k) \div x.d)
                ip == NatToString(m \div Pow10(k))
                fp == PadLeft(NatToString(m % Pow10(k)), k)
                body == IF k = 0 THEN ip ELSE ip \o <<".">> \o fp
            IN  IF x.n < 0 THEN <<"-">> \o body ELSE body

\* the attribute value of an element that has no such attribute (undefined)
NoAttr == <<"undefined">>

(***************************************************************************)
(* Config / helpers (src/script.js 14-56)                                  *)
(***************************************************************************)
START_YEAR == 2015
\* new Date().getFullYear() is START_YEAR + MaxSpan in the model
MaxSpan == 3
CURRENT_YEAR == START_YEAR + MaxSpan
YEARS == [i \in 1..(CURRENT_YEAR - START_YEAR + 1) |-> START_YEAR + i - 1]

baseNiftySamples ==
    <<Whole(10000), Whole(11000), Whole(12500), Whole(13000), Whole(15000), Whole(14000),
      Whole(18000), Whole(21000), Whole(20000), Whole(24000), Whole(25000)>>

\* toLocaleString('en-IN', { maximumFractionDigits: 0 }): the number shown,
\* rounded to an integer, halves away from zero
fmtINR(v) ==
    IF v.k # "fin" THEN v
    ELSE IF v.n >= 0 THEN Whole((2 * v.n + v.d) \div (2 * v.d))
    ELSE Whole(-(((2 * (-v.n)) + v.d) \div (2 * v.d)))

\* x.toFixed(k): the number shown, n / 10^k with n the integer nearest to
\* x * 10^k, the larger one on a tie
ToFixed(x, k) ==
    IF x.k # "fin" THEN x ELSE NDiv(MathRound(NMul(x, Whole(Pow10(k)))), Whole(Pow10(k)))

\* called on strings only (an input's value, or parseCagr's s)
safeParseNumber(str) ==
    IF str = <<>> THEN NaN ELSE parseFloat(Trim(RemoveCommas(str)))

\* v is the string String(v), or NoAttr for null / undefined
parseCagr(v) ==
    IF v = NoAttr THEN NaN
    ELSE LET s0 == Trim(v)
             s == IF s0 # <<>> /\ s0[Len(s0)] = "%" THEN SubSeq(s0, 1, Len(s0) - 1) ELSE s0
             n == safeParseNumber(s)
         IN  IF ~IsFinite(n) THEN NaN
             ELSE IF NLt(Whole(1), n) THEN NDiv(n, Whole(100))
             ELSE n

MapRound(s) == [i \in 1..Len(s) |-> MathRound(s[i])]

\* the while loop of buildNiftyData
RECURSIVE Extend(_, _, _, _)
Extend(result, last, approxCagr, n) ==
    IF Len(result) >= n THEN result
    ELSE LET next == NMul(last, NAdd(Whole(1), approxCagr))
         IN  Extend(Append(result, MathRound(next)), next, approxCagr, n)

buildNiftyData(years, seedArray) ==
    LET result == seedArray
        n == Len(result)
    IN  IF n >= Len(years) THEN MapRound(SubSeq(result, 1, Len(years)))
        ELSE LET lastElem == IF n >= 1 THEN result[n] ELSE Null
                 last == IF Truthy(lastElem) THEN lastElem ELSE Whole(10000)
                 prevElem == IF n >= 2 THEN result[n - 1] ELSE Null
                 prev == IF Truthy(prevElem) THEN prevElem ELSE last
                 ratio == IF NLt(Whole(0), prev)
                          THEN NSub(NDiv(last, prev), Whole(1)) ELSE Fin(8, 100)
                 approxCagr == IF ~IsFinite(ratio) \/ NLe(ratio, Whole(-1))
                               THEN Fin(8, 100) ELSE ratio
             IN  MapRound(Extend(result, last, approxCagr, Len(years)))

niftyData == buildNiftyData(YEARS, baseNiftySamples)

\* YEARS.indexOf(y) + 1, or 0 when y is not an element (NaN is never one)
IndexOfYear(y) ==
    IF y.k = "fin" /\ y.d = 1 /\ \E i \in 1..Len(YEARS) : YEARS[i] = y.n
    THEN CHOOSE i \in 1..Len(YEARS) : YEARS[i] = y.n
    ELSE 0

\* Math.pow(b, e) for e an integer >= 0 or NaN
MathPow(b, e) ==
    IF e.k = "fin" /\ e.d = 1 /\ e.n >= 0 THEN NPow(b, e.n) ELSE NaN

\* computeUserSeries with "year <= startYear" for "year < startYear"
computeUserSeriesLate(principal, startYear, cagrDecimal) ==
    [i \in 1..Len(YEARS) |->
        IF NLe(Whole(YEARS[i]), startYear) THEN Null
        ELSE LET yearsDiff == NSub(Whole(YEARS[i]), startYear)
                 val == NMul(principal, MathPow(NAdd(Whole(1), cagrDecimal), yearsDiff))
             IN  IF IsFinite(val) THEN MathRound(val) ELSE Null]

computeUserSeries(principal, startYear, cagrDecimal) ==
    [i \in 1..Len(YEARS) |->
        IF NLt(Whole(YEARS[i]), startYear) THEN Null
        ELSE LET yearsDiff == NSub(Whole(YEARS[i]), startYear)
                 val == NMul(principal, MathPow(NAdd(Whole(1), cagrDecimal), yearsDiff))
             IN  IF IsFinite(val) THEN MathRound(val) ELSE Null]

\* IEEE 754 doubles: the arguments <<val, principal, base>>, among those of
\* the amounts and benchmark values of this model, for which the double
\* val * (principal / base) lies just below the exact value k + 1/2, as in
\* 10000 * (1017.5 / 10000) = 1017.4999999999999.  For every other argument of
\* the model the double and the exact value round to the same integer.
DoubleBelowHalf ==
    { <<Whole(10000), Fin(2035, 2), Whole(10000)>>,
      <<Whole(15000), Fin(2035, 2), Whole(15000)>> }

\* Math.round(val * scaleFactor) with scaleFactor = principal / base
roundScaled(val, principal, base) ==
    IF <<val, principal, base>> \in DoubleBelowHalf
    THEN NSub(MathRound(NMul(val, NDiv(principal, base))), Whole(1))
    ELSE MathRound(NMul(val, NDiv(principal, base)))

\* one entry of scaledNiftyData: val at index i, base = niftyData[YEARS.indexOf(startYear)]
scaleEntry(val, i, principal, startYear, base) ==
    IF NLt(Whole(YEARS[i]), startYear) THEN Null
    ELSE roundScaled(val, principal, base)

\* niftyData[YEARS.indexOf(startYear)]; undefined is NaN in the division
baseOf(nifty, idx) == IF idx = 0 THEN NaN ELSE nifty[idx]

\* the scaledNiftyData of calculateGrowth, over the benchmark series nifty
scaleNifty(nifty, principal, startYear) ==
    [i \in 1..Len(nifty) |->
        scaleEntry(nifty[i], i, principal, startYear, baseOf(nifty, IndexOfYear(startYear)))]

(***************************************************************************)
(* Chart.js & simulator (src/script.js 246-435)                            *)
(***************************************************************************)
\* the data-cagr attribute of each .category-btn, in document order; the
\* last button has no such attribute
BtnCagr == << <<"1", "0">>, <<"0", ".", "5">>, NoAttr >>
Buttons == DOMAIN BtnCagr

\* what the user can type into #investmentAmount
AmountTexts ==
    { <<>>, <<"a", "b", "c">>, <<"9", "9", "9">>,
      <<"1", "0", ",", "0", "0", "0">>, <<"1", "0", "1", "7", ".", "5">> }

\* the options of #startYear: String(y) for every year of the axis
YearOptions == {NumberToString(Whole(YEARS[i])) : i \in 1..Len(YEARS)}

initialUserData == [i \in 1..Len(YEARS) |-> Null]

\* document.querySelector('.category-selector .category-btn.active'):
\* the first active button in document order, 0 for null
ActiveBtn(act) ==
    IF \E b \in Buttons : act[b]
    THEN CHOOSE b \in Buttons : act[b] /\ \A c \in Buttons : act[c] => b <= c
    ELSE 0

\* scaleSource reading the dataset on show instead of the unscaled series
scaleSourceOnShow == benchData

\* the series the rescaling reads
scaleSource == niftyData

\* FirstGateFails without the minimum of 1000
FirstGateNoMinimum(activeBtn, principal, startYear) ==
    \/ activeBtn = 0
    \/ ~IsFinite(principal)
    \/ ~IsFinite(startYear)

\* the condition of the first early return of calculateGrowth
FirstGateFails(activeBtn, principal, startYear) ==
    \/ activeBtn = 0
    \/ ~IsFinite(principal)
    \/ NLt(principal, Whole(1000))
    \/ ~IsFinite(startYear)

hideUserSeries ==
    /\ userData' = [i \in 1..Len(YEARS) |-> Null]
    /\ userHidden' = TRUE

revealUserSeries(series) ==
    /\ userData' = series
    /\ userHidden' = FALSE

\* the early returns of calculateGrowth: hide results & user series
suppressResult ==
    /\ resultDisplay' = "none"
    /\ hideUserSeries
    /\ UNCHANGED <<finalAmountEl, totalReturnEl, cagrUsedEl>>

\* calculateGrowth from "const finalAmount" on
showResult(principal, startYear, cagr, finalAmount) ==
    /\ finalAmountEl' = fmtINR(MathRound(finalAmount))
    /\ totalReturnEl' =
          ToFixed(NMul(NDiv(NSub(finalAmount, principal), principal), Whole(100)), 1)
    /\ cagrUsedEl' = ToFixed(NMul(cagr, Whole(100)), 2)
    /\ resultDisplay' = "block"
    /\ revealUserSeries(computeUserSeries(principal, startYear, cagr))

\* calculateGrowth from "const rawCagr" on
withCategory(principal, startYear, cagr, durationYears) ==
    IF ~IsFinite(cagr) THEN suppressResult
    ELSE IF NLt(durationYears, Whole(0)) THEN suppressResult
    ELSE showResult(principal, startYear, cagr,
                    NMul(principal, MathPow(NAdd(Whole(1), cagr), durationYears)))

\* calculateGrowth after its inputs are parsed
withInputs(principal, startYear, activeBtn) ==
    /\ benchData' = scaleNifty(scaleSource, principal, startYear)
    /\ IF FirstGateFails(activeBtn, principal, startYear) THEN suppressResult
       ELSE withCategory(principal, startYear, parseCagr(BtnCagr[activeBtn]),
                         NSub(Whole(CURRENT_YEAR), startYear))

\* calculateGrowth() run on the inputs amt, yr, act
calculateGrowth(amt, yr, act) ==
    withInputs(safeParseNumber(amt), parseInt(yr), ActiveBtn(act))

\* SelectOnly without the loop that clears the other buttons
SelectAlso(b) == [x \in Buttons |-> x = b \/ active[x]]

\* the class changes of the click handler of button b
SelectOnly(b) == [x \in Buttons |-> x = b]

\* the inputs calculateGrowth reads, and what it writes
calcInputs == <<amountText, yearText, active>>
calcOutputs == <<benchData, userData, userHidden, resultDisplay, finalAmountEl,
                 totalReturnEl, cagrUsedEl>>

\* the record of an event that ran calculateGrowth; again: the event before
\* ran it too, on the same inputs
Ran(op, b) ==
    [op |-> op, btn |-> b, ran |-> TRUE, again |-> calcEvent.ran /\ calcInputs' = calcInputs]

\* click on category button b
ClickCategory(b) ==
    /\ active' = SelectOnly(b)
    /\ UNCHANGED <<amountText, yearText, defaultPending>>
    /\ calculateGrowth(amountText, yearText, active')
    /\ calcEvent' = Ran("click", b)

\* the user edits the amount: an "input" event
AmountInput(t) ==
    /\ amountText' = t
    /\ UNCHANGED <<yearText, active, defaultPending>>
    /\ calculateGrowth(t, yearText, active)
    /\ calcEvent' = Ran("input", 0)

\* the amount field loses focus after an edit: a "change" event
AmountChange ==
    /\ UNCHANGED <<amountText, yearText, active, defaultPending>>
    /\ calculateGrowth(amountText, yearText, active)
    /\ calcEvent' = Ran("change", 0)

\* the user picks option y of #startYear: a "change" event
YearChange(y) ==
    /\ yearText' = y
    /\ UNCHANGED <<amountText, active, defaultPending>>
    /\ calculateGrowth(amountText, y, active)
    /\ calcEvent' = Ran("year", 0)

\* the setTimeout(..., 150) callback
InitialDefault ==
    /\ defaultPending
    /\ defaultPending' = FALSE
    /\ amountText' = IF amountText = <<>> THEN <<"1", "0", "0", "0", "0">> ELSE amountText
    /\ UNCHANGED <<yearText, active>>
    /\ IF ActiveBtn(active) # 0
       THEN /\ calculateGrowth(amountText', yearText, active)
            /\ calcEvent' = Ran("default", 0)
       ELSE /\ calcEvent' = [op |-> "default", btn |-> 0, ran |-> FALSE, again |-> FALSE]
            /\ UNCHANGED calcOutputs

leadIdle == <<leadVars, fnVars>>

NextCalc ==
    \/ \E b \in Buttons : ClickCategory(b) /\ UNCHANGED leadIdle
    \/ \E t \in AmountTexts : AmountInput(t) /\ UNCHANGED leadIdle
    \/ AmountChange /\ UNCHANGED leadIdle
    \/ \E y \in YearOptions : YearChange(y) /\ UNCHANGED leadIdle
    \/ InitialDefault /\ UNCHANGED leadIdle

\* the page after DOMContentLoaded, with the lead form left alone
InitCalc ==
    /\ amountText \in {<<>>, <<"9", "9", "9">>}
    /\ yearText = NumberToString(Whole(START_YEAR))
    /\ active \in {[x \in Buttons |-> x = b] : b \in Buttons \cup {0}}
    /\ benchData = niftyData
    /\ userData = initialUserData
    /\ userHidden = TRUE
    /\ resultDisplay = ""
    /\ finalAmountEl = Null
    /\ totalReturnEl = Null
    /\ cagrUsedEl = Null
    /\ defaultPending = TRUE
    /\ calcEvent = [op |-> "none", btn |-> 0, ran |-> FALSE, again |-> FALSE]
    /\ modalShown = FALSE
    /\ formDisplay = ""
    /\ confirmDisplay = ""
    /\ formName = <<>>
    /\ formPhone = <<>>
    /\ submitDisabled = FALSE
    /\ submitLabel = "Submit"
    /\ timers = 0
    /\ requests = <<>>
    /\ errorLog = 0
    /\ closesFired = 0
    /\ popupShown = FALSE
    /\ leadEvent = "none"
    /\ fnIn = <<>>
    /\ fnOut = <<>>
    /\ fnDone = FALSE

SpecCalc == InitCalc /\ [][NextCalc]_vars

(***************************************************************************)
(* Lead form + modal logic (src/script.js 84-165, 225-235)                 *)
(***************************************************************************)
\* valid submissions in one run of the model
MaxSubmits == 2

ValidPhone == <<"9", "8", "7", "6", "5", "4", "3", "2", "1", "0">>

\* what the user can type into the name and phone fields
NameTexts == { <<" ">>, <<"A">> }
PhoneTexts == { ValidPhone, <<" ">> \o ValidPhone \o <<" ">>,
                <<"9", "8", "7", "6", "5", "4", "3", "2", "1">>,
                <<"9", "8", "7", "6", "5", "x", "3", "2", "1", "0">> }

\* /^[0-9]{10}$/.test(phone)
TenDigits(phone) == Len(phone) = 10 /\ \A i \in 1..Len(phone) : IsDigit(phone[i])

\* the "quick validation" of the submit handler passes
ValidLead(name, phone) == name # <<>> /\ TenDigits(phone)

openModal ==
    /\ formDisplay' = "block"
    /\ confirmDisplay' = "none"
    /\ modalShown' = TRUE

closeModal == modalShown' = FALSE

calcIdle == <<calcVars, fnVars>>

\* a click on a .cta-button outside a form, on #heroImage, or a click, focus
\* or submit on the bottom bar form
OpenClick(src) ==
    /\ openModal
    /\ leadEvent' = src
    /\ UNCHANGED <<formName, formPhone, submitDisabled, submitLabel, timers, requests,
                   errorLog, closesFired, popupShown>>

\* a click on #closeBtn or on the modal's backdrop
CloseClick ==
    /\ closeModal
    /\ leadEvent' = "close"
    /\ UNCHANGED <<formDisplay, confirmDisplay, formName, formPhone, submitDisabled,
                   submitLabel, timers, requests, errorLog, closesFired, popupShown>>

\* a scroll event; past: the bottom of the viewport is at 50% of the page or beyond
Scroll(past) ==
    /\ ~popupShown
    /\ IF past
       THEN /\ popupShown' = TRUE
            /\ IF ~modalShown THEN openModal
               ELSE UNCHANGED <<formDisplay, confirmDisplay, modalShown>>
       ELSE UNCHANGED <<popupShown, formDisplay, confirmDisplay, modalShown>>
    /\ leadEvent' = "scroll"
    /\ UNCHANGED <<formName, formPhone, submitDisabled, submitLabel, timers, requests,
                   errorLog, closesFired>>

\* the user types into the lead form
TypeLead(name, phone) ==
    /\ formName' = name
    /\ formPhone' = phone
    /\ leadEvent' = "type"
    /\ UNCHANGED <<modalShown, formDisplay, confirmDisplay, submitDisabled, submitLabel,
                   timers, requests, errorLog, closesFired, popupShown>>

\* SubmitTry with the confirmation left to the settling of the request
SubmitTryAwaiting(name, phone) ==
    /\ requests' = Append(requests, [name |-> name, phone |-> phone, status |-> "pending"])
    /\ UNCHANGED <<formDisplay, confirmDisplay>>

\* the try block of the submit handler, after the validation
SubmitTry(name, phone) ==
    /\ requests' = Append(requests, [name |-> name, phone |-> phone, status |-> "pending"])
    /\ formDisplay' = "none"
    /\ confirmDisplay' = "block"

\* the finally block of the submit handler
SubmitFinally ==
    /\ formName' = <<>>
    /\ formPhone' = <<>>
    /\ submitDisabled' = FALSE
    /\ submitLabel' = submitLabel
    /\ timers' = timers + 1

\* the submit event of #leadForm
Submit ==
    LET name == Trim(formName)
        phone == Trim(formPhone)
    IN  IF ~ValidLead(name, phone)
        THEN /\ leadEvent' = "alert"
             /\ UNCHANGED <<modalShown, formDisplay, confirmDisplay, formName, formPhone,
                            submitDisabled, submitLabel, timers, requests, errorLog,
                            closesFired, popupShown>>
        ELSE /\ Len(requests) < MaxSubmits
             /\ SubmitTry(name, phone)
             /\ SubmitFinally
             /\ leadEvent' = "submit"
             /\ UNCHANGED <<modalShown, errorLog, closesFired, popupShown>>

\* the .catch handler of the fetch promise
FetchRejected == errorLog' = errorLog + 1

\* request i settles: ok is the promise fulfilled, ~ok is it rejected
Settle(i, ok) ==
    /\ requests[i].status = "pending"
    /\ requests' = [requests EXCEPT ![i].status = IF ok THEN "done" ELSE "failed"]
    /\ IF ok THEN UNCHANGED errorLog ELSE FetchRejected
    /\ leadEvent' = "settle"
    /\ UNCHANGED <<modalShown, formDisplay, confirmDisplay, formName, formPhone,
                   submitDisabled, submitLabel, timers, closesFired, popupShown>>

\* CloseTimer closing the modal only while the confirmation is on show
CloseTimerIfConfirming ==
    /\ timers > 0
    /\ timers' = timers - 1
    /\ closesFired' = closesFired + 1
    /\ modalShown' = IF confirmDisplay = "block" THEN FALSE ELSE modalShown
    /\ leadEvent' = "timer"
    /\ UNCHANGED <<formDisplay, confirmDisplay, formName, formPhone, submitDisabled,
                   submitLabel, requests, errorLog, popupShown>>

\* a setTimeout(() => closeModal(), 600) callback runs
CloseTimer ==
    /\ timers > 0
    /\ timers' = timers - 1
    /\ closesFired' = closesFired + 1
    /\ closeModal
    /\ leadEvent' = "timer"
    /\ UNCHANGED <<formDisplay, confirmDisplay, formName, formPhone, submitDisabled,
                   submitLabel, requests, errorLog, popupShown>>

NextLead ==
    \/ \E src \in {"cta", "hero", "bottomBar"} : OpenClick(src) /\ UNCHANGED calcIdle
    \/ CloseClick /\ UNCHANGED calcIdle
    \/ \E past \in BOOLEAN : Scroll(past) /\ UNCHANGED calcIdle
    \/ \E name \in NameTexts, phone \in PhoneTexts : TypeLead(name, phone) /\ UNCHANGED calcIdle
    \/ Submit /\ UNCHANGED calcIdle
    \/ \E i \in 1..Len(requests), ok \in BOOLEAN : Settle(i, ok) /\ UNCHANGED calcIdle
    \/ CloseTimer /\ UNCHANGED calcIdle

\* the page after DOMContentLoaded, with the calculator left alone
InitLead ==
    /\ amountText = <<>>
    /\ yearText = NumberToString(Whole(START_YEAR))
    /\ active = [x \in Buttons |-> FALSE]
    /\ benchData = niftyData
    /\ userData = initialUserData
    /\ userHidden = TRUE
    /\ resultDisplay = ""
    /\ finalAmountEl = Null
    /\ totalReturnEl = Null
    /\ cagrUsedEl = Null
    /\ defaultPending = TRUE
    /\ calcEvent = [op |-> "none", btn |-> 0, ran |-> FALSE, again |-> FALSE]
    /\ modalShown = FALSE
    /\ formDisplay = ""
    /\ confirmDisplay = ""
    /\ formName = <<>>
    /\ formPhone = <<>>
    /\ submitDisabled = FALSE
    /\ submitLabel = "Submit"
    /\ timers = 0
    /\ requests = <<>>
    /\ errorLog = 0
    /\ closesFired = 0
    /\ popupShown = FALSE
    /\ leadEvent = "none"
    /\ fnIn = <<>>
    /\ fnOut = <<>>
    /\ fnDone = FALSE

SpecLead == InitLead /\ [][NextLead]_vars

(***************************************************************************)
(* The helpers as functions of their arguments                             *)
(***************************************************************************)
\* the longest seed and the longest axis buildNiftyData is applied to
MaxSeed == 2
MaxAxis == 3

pageIdle == <<amountText, yearText, active, userData, userHidden, resultDisplay,
              finalAmountEl, totalReturnEl, cagrUsedEl, defaultPending, calcEvent,
              leadVars>>

\* the page after DOMContentLoaded, and an argument drawn from inputs
InitFn(inputs) ==
    /\ amountText = <<>>
    /\ yearText = NumberToString(Whole(START_YEAR))
    /\ active = [x \in Buttons |-> FALSE]
    /\ benchData = niftyData
    /\ userData = initialUserData
    /\ userHidden = TRUE
    /\ resultDisplay = ""
    /\ finalAmountEl = Null
    /\ totalReturnEl = Null
    /\ cagrUsedEl = Null
    /\ defaultPending = TRUE
    /\ calcEvent = [op |-> "none", btn |-> 0, ran |-> FALSE, again |-> FALSE]
    /\ modalShown = FALSE
    /\ formDisplay = ""
    /\ confirmDisplay = ""
    /\ formName = <<>>
    /\ formPhone = <<>>
    /\ submitDisabled = FALSE
    /\ submitLabel = "Submit"
    /\ timers = 0
    /\ requests = <<>>
    /\ errorLog = 0
    /\ closesFired = 0
    /\ popupShown = FALSE
    /\ leadEvent = "none"
    /\ fnIn \in inputs
    /\ fnOut = <<>>
    /\ fnDone = FALSE

\* ---- buildNiftyData(years, seedArray)
SeedValues == {Whole(0), Whole(100), Whole(110), Fin(201, 2)}

RECURSIVE SeqsUpTo(_, _)
SeqsUpTo(S, n) ==
    IF n = 0 THEN {<<>>}
    ELSE LET shorter == SeqsUpTo(S, n - 1)
         IN  shorter \cup {Append(q, x) : q \in {r \in shorter : Len(r) = n - 1}, x \in S}

YearsFrom(len) == [i \in 1..len |-> START_YEAR + i - 1]

BuildInputs ==
    [years : {YearsFrom(len) : len \in 1..MaxAxis}, seedArray : SeqsUpTo(SeedValues, MaxSeed)]

ApplyBuild ==
    /\ ~fnDone
    /\ fnOut' = buildNiftyData(fnIn.years, fnIn.seedArray)
    /\ fnDone' = TRUE
    /\ UNCHANGED <<fnIn, benchData, pageIdle>>

InitBuild == InitFn(BuildInputs)
SpecBuild == InitBuild /\ [][ApplyBuild]_vars

\* ---- parseCagr(v)
NAbs(x) == IF x.k = "fin" /\ x.n < 0 THEN Fin(-x.n, x.d) ELSE IF x.k = "ninf" THEN PosInf ELSE x

RateMagnitudes == {Whole(0), Fin(1, 10), Fin(1, 2), Whole(1), Fin(3, 2), Whole(10), Whole(150)}
RateValues == RateMagnitudes \cup {NNeg(x) : x \in RateMagnitudes}

\* a rate given as a number, as its decimal string, with a trailing "%", and
\* with white space around it; val is the number meant
NumericRates ==
    {[kind |-> "number", val |-> x, v |-> NumberToString(x)] : x \in RateValues}
    \cup {[kind |-> "string", val |-> x, v |-> NumberToString(x)] : x \in RateValues}
    \cup {[kind |-> "percent", val |-> x, v |-> NumberToString(x) \o <<"%">>] : x \in RateValues}
    \cup {[kind |-> "padded", val |-> x, v |-> <<" ">> \o NumberToString(x) \o <<" ">>] :
             x \in RateValues}

\* non-numeric strings, and a missing value (null / undefined)
OtherRates ==
    {[kind |-> "text", val |-> NaN, v |-> t] :
        t \in {<<>>, <<" ">>, <<"%">>, <<"a", "b", "c">>, <<"-">>}}
    \cup {[kind |-> "missing", val |-> NaN, v |-> NoAttr]}

CagrInputs == NumericRates \cup OtherRates

ApplyCagr ==
    /\ ~fnDone
    /\ fnOut' = parseCagr(fnIn.v)
    /\ fnDone' = TRUE
    /\ UNCHANGED <<fnIn, benchData, pageIdle>>

InitCagr == InitFn(CagrInputs)
SpecCagr == InitCagr /\ [][ApplyCagr]_vars

\* ---- computeUserSeries(principal, startYear, cagrDecimal)
Principals == {Whole(1000), Whole(10000), Fin(2001, 2), Whole(0), Whole(-500), NaN, PosInf}
Rates == {Fin(1, 10), Fin(1, 2), Whole(0), Whole(-1), Fin(-3, 2), NaN, PosInf}

SeriesInputs ==
    [principal : Principals, startYear : {Whole(YEARS[i]) : i \in 1..Len(YEARS)},
     cagrDecimal : Rates]

ApplySeries ==
    /\ ~fnDone
    /\ fnOut' = computeUserSeries(fnIn.principal, fnIn.startYear, fnIn.cagrDecimal)
    /\ fnDone' = TRUE
    /\ UNCHANGED <<fnIn, benchData, pageIdle>>

InitSeries == InitFn(SeriesInputs)
SpecSeries == InitSeries /\ [][ApplySeries]_vars

\* ---- the rescaling of calculateGrowth, over any benchmark series
\* niftyData, and niftyData with the value of one year replaced by 0
BenchmarkSeries ==
    {niftyData} \cup {[niftyData EXCEPT ![j] = Whole(0)] : j \in 1..Len(niftyData)}

RescaleInputs ==
    [nifty : BenchmarkSeries, principal : {Whole(1000), Whole(10000), Whole(0), NaN},
     startYear : {Whole(YEARS[i]) : i \in 1..Len(YEARS)}]

\* "marketChart.data.datasets[0].data = scaledNiftyData"
ApplyRescale ==
    /\ ~fnDone
    /\ benchData' = scaleNifty(fnIn.nifty, fnIn.principal, fnIn.startYear)
    /\ fnDone' = TRUE
    /\ UNCHANGED <<fnIn, fnOut, pageIdle>>

InitRescale == InitFn(RescaleInputs)
SpecRescale == InitRescale /\ [][ApplyRescale]_vars

\* ---- the whole page: the calculator and the lead form share no state
Init == InitCalc
Next == NextCalc \/ NextLead
Spec == Init /\ [][Next]_vars

(***************************************************************************)
(* Properties                                                              *)
(***************************************************************************)
\* r is x rounded to the nearest integer, halves up: r <= x + 1/2 < r + 1
IsRoundOf(r, x) ==
    /\ r.k = "fin" /\ r.d = 1 /\ x.k = "fin"
    /\ 2 * r.n * x.d <= 2 * x.n + x.d
    /\ 2 * x.n + x.d < 2 * (r.n + 1) * x.d

AllNull(series) == \A i \in 1..Len(series) : series[i] = Null

\* the inputs of the calculator as calculateGrowth reads them
CurPrincipal == safeParseNumber(amountText)
CurStartYear == parseInt(yearText)
CurRate == parseCagr(BtnCagr[ActiveBtn(active)])

\* the five conditions of the validation gate, on the current inputs
GateConditions ==
    /\ \E b \in Buttons : active[b]
    /\ IsFinite(CurPrincipal) /\ NLe(Whole(1000), CurPrincipal)
    /\ IndexOfYear(CurStartYear) # 0
    /\ IsFinite(CurRate)
    /\ NLe(Whole(0), NSub(Whole(CURRENT_YEAR), CurStartYear))

\* C1: after an event that recalculated, the result box is visible or the
\* projection series is revealed only if all five gate conditions hold for the
\* current inputs; if one fails, the result box is hidden and the projection
\* series is all null and hidden.
C1_ValidationGate ==
    calcEvent.ran =>
        /\ (resultDisplay = "block" \/ ~userHidden) => GateConditions
        /\ ~GateConditions =>
              resultDisplay = "none" /\ userHidden /\ AllNull(userData)

\* the gate fails on the 1000 minimum after an earlier recalculation passed it
C1_Witness ==
    /\ calcEvent.ran
    /\ \E b \in Buttons : active[b] /\ IsFinite(parseCagr(BtnCagr[b]))
    /\ amountText = <<"9", "9", "9">>
    /\ finalAmountEl # Null
    /\ resultDisplay = "none" /\ userHidden

ClaimedRate(seed) ==
    IF Len(seed) < 2 THEN Fin(8, 100)
    ELSE LET r == NSub(NDiv(seed[Len(seed)], seed[Len(seed) - 1]), Whole(1))
         IN  IF ~IsFinite(r) \/ NLe(r, Whole(-1)) THEN Fin(8, 100) ELSE r

\* C3: for a seed shorter than the axis, the result has the length of the
\* axis, starts with the rounded seed, and continues with the seed's last
\* value compounded by 1 + rate, rounded, where rate is the trailing growth
\* rate, or 0.08 by default.
C3_ExtendedTail ==
    (fnDone /\ Len(fnIn.seedArray) < Len(fnIn.years)) =>
        LET seed == fnIn.seedArray
            n == Len(seed)
        IN  /\ Len(fnOut) = Len(fnIn.years)
            /\ \A i \in 1..n : fnOut[i] = MathRound(seed[i])
            /\ n >= 1 =>
                  \A j \in 1..(Len(fnIn.years) - n) :
                      fnOut[n + j] =
                          MathRound(NMul(seed[n], NPow(NAdd(Whole(1), ClaimedRate(seed)), j)))

\* C4: a numeric rate v gives v/100 when its magnitude is > 1 and v when it
\* is <= 1; a non-numeric or missing value gives NaN.
C4_ParseCagrByMagnitude ==
    fnDone =>
        IF fnIn.val = NaN THEN fnOut = NaN
        ELSE IF NLt(Whole(1), NAbs(fnIn.val)) THEN fnOut = NDiv(fnIn.val, Whole(100))
        ELSE fnOut = fnIn.val

\* C5: at most one category button is active; right after a click on b the
\* active button is b alone, and the recalculation of that click used b's
\* rate: it shows that rate and the projection computed with it, or shows
\* nothing when b's rate is not finite.
C5_OneActiveCategory ==
    /\ Cardinality({b \in Buttons : active[b]}) <= 1
    /\ calcEvent.op = "click" =>
          LET b == calcEvent.btn
              rate == parseCagr(BtnCagr[b])
          IN  /\ \A x \in Buttons : active[x] <=> x = b
              /\ resultDisplay = "block" =>
                    /\ cagrUsedEl = ToFixed(NMul(rate, Whole(100)), 2)
                    /\ userData = computeUserSeries(CurPrincipal, CurStartYear, rate)
              /\ ~IsFinite(rate) => resultDisplay = "none"

\* a click on the second button, after another one was active, shows 50.00%
C5_Witness ==
    /\ calcEvent.op = "click" /\ calcEvent.btn = 2
    /\ resultDisplay = "block"
    /\ cagrUsedEl = Whole(50)
    /\ finalAmountEl # Null /\ active[2] /\ ~active[1]

\* C6: a recalculation on the inputs of the recalculation before it leaves
\* both datasets, the hidden flag, the result box and the three summary
\* values as they are.
C6_Idempotent ==
    [][(calcEvent.ran /\ calcEvent'.ran /\ calcInputs' = calcInputs)
          => calcOutputs' = calcOutputs]_vars

\* a second recalculation on the same inputs, with a rescaled benchmark on show
C6_Witness ==
    /\ calcEvent.again
    /\ resultDisplay = "block"
    /\ benchData[1] = Null /\ benchData # niftyData

\* a step that only settles a request
SettleStep ==
    /\ Len(requests') = Len(requests)
    /\ requests' # requests

\* a step of the submit handler past its validation
SubmitStep == Len(requests') = Len(requests) + 1

\* C7: a valid submission dispatches the request and, in the same step, shows
\* the confirmation, hides the form, resets the fields, leaves the button
\* enabled with its label and schedules the close; a step that settles a
\* request changes none of these, and logs when the request failed.
C7_FireAndForget ==
    [][/\ (leadEvent' = "submit" /\ ValidLead(Trim(formName), Trim(formPhone))) =>
            /\ SubmitStep
            /\ requests'[Len(requests')].status = "pending"
            /\ confirmDisplay' = "block" /\ formDisplay' = "none"
            /\ formName' = <<>> /\ formPhone' = <<>>
            /\ ~submitDisabled' /\ submitLabel' = submitLabel
            /\ timers' = timers + 1
       /\ SettleStep =>
            /\ UNCHANGED <<modalShown, formDisplay, confirmDisplay, formName, formPhone,
                           submitDisabled, submitLabel, timers, closesFired>>
            /\ errorLog' - errorLog =
                  Cardinality({i \in 1..Len(requests) :
                                  requests'[i].status = "failed" /\ requests[i].status # "failed"})
      ]_vars

\* a request has failed and one is still pending, and the confirmation is on show
C7_Witness ==
    /\ leadEvent = "settle"
    /\ \E i \in 1..Len(requests) : requests[i].status = "failed"
    /\ \E i \in 1..Len(requests) : requests[i].status = "pending"
    /\ errorLog = 1
    /\ confirmDisplay = "block" /\ formDisplay = "none" /\ modalShown

\* C8: the series has the length of the axis; it is null before the start
\* year, and from it on it is principal * (1 + rate)^(year - startYear)
\* rounded, or null when that value is not finite; so the entry of the start
\* year is the rounded principal.
C8_UserSeries ==
    fnDone =>
        /\ Len(fnOut) = Len(YEARS)
        /\ \A i \in 1..Len(YEARS) :
              LET exact == NMul(fnIn.principal,
                                MathPow(NAdd(Whole(1), fnIn.cagrDecimal),
                                        Whole(YEARS[i] - fnIn.startYear.n)))
              IN  IF YEARS[i] < fnIn.startYear.n THEN fnOut[i] = Null
                  ELSE IF IsFinite(exact) THEN IsRoundOf(fnOut[i], exact)
                  ELSE fnOut[i] = Null
        /\ IsFinite(fnIn.principal) =>
              IsRoundOf(fnOut[IndexOfYear(fnIn.startYear)], fnIn.principal)

\* 10000 from 2016 at 10%: null, 10000, 11000
C8_Witness ==
    /\ fnDone
    /\ fnIn.principal = Whole(10000) /\ fnIn.startYear = Whole(2016)
    /\ fnIn.cagrDecimal = Fin(1, 10)
    /\ fnOut[1] = Null /\ fnOut[2] = Whole(10000) /\ fnOut[3] = Whole(11000)

\* C9: after a recalculation that passed the gate, the benchmark dataset is
\* null before the start year and round(benchmark[year] * principal /
\* benchmark[startYear]) from it on, over the unscaled series; the benchmark
\* and the projection both start at round(principal).
C9_RescaledBenchmark ==
    (calcEvent.ran /\ resultDisplay = "block") =>
        LET s == IndexOfYear(CurStartYear)
        IN  /\ s # 0
            /\ Len(benchData) = Len(YEARS)
            /\ \A i \in 1..Len(YEARS) :
                  IF YEARS[i] < CurStartYear.n THEN benchData[i] = Null
                  ELSE IsRoundOf(benchData[i],
                                 NDiv(NMul(niftyData[i], CurPrincipal), niftyData[s]))
            /\ IsRoundOf(benchData[s], CurPrincipal)
            /\ benchData[s] = userData[s]

\* C10: every valid submission has scheduled exactly one close, pending or
\* run; a step in which a scheduled close runs leaves the modal closed,
\* whatever the state before it; an invalid submission schedules no close,
\* dispatches no request and leaves the form and the confirmation as they are.
C10_ScheduledClose ==
    /\ [](timers + closesFired = Len(requests))
    /\ [][/\ SubmitStep => timers' = timers + 1 /\ closesFired' = closesFired
          /\ closesFired' # closesFired =>
                /\ closesFired' = closesFired + 1 /\ timers' = timers - 1
                /\ ~modalShown'
          /\ (leadEvent' = "alert" \/
              (leadEvent' = "submit" /\ ~ValidLead(Trim(formName), Trim(formPhone)))) =>
                UNCHANGED <<timers, requests, confirmDisplay, formDisplay, modalShown>>
         ]_vars

\* a scheduled close has just closed a modal that was opened again after the submission
C10_Witness ==
    /\ leadEvent = "timer"
    /\ ~modalShown
    /\ confirmDisplay = "none" /\ formDisplay = "block"
    /\ closesFired = 1 /\ Len(requests) = 1
===========================================================================
